---------------------------- MODULE Spec2Model ----------------------------
(***************************************************************************)
(* Model of the envelope codec of ctSESAM/crypter.cpp (Crypter::encode,    *)
(* Crypter::decode and the primitives they call).                          *)
(*                                                                         *)
(* Byte arrays are sequences over 0..255.  The library primitives the      *)
(* codec calls (AES-256 in CBC mode, PBKDF2, qCompress/qUncompress, the    *)
(* random device) are modelled by small functions that keep the            *)
(* properties the codec depends on: the block transform is a keyed         *)
(* bijection on 16-byte blocks, the key derivation is a deterministic      *)
(* function of all its parameters, the compressed stream carries a header  *)
(* and a checksum that qUncompress validates.                              *)
(***************************************************************************)
EXTENDS Integers, Sequences, FiniteSets, TLC

(***************************************************************************)
(* Program constants                                                       *)
(***************************************************************************)
SaltSize == 32

AESKeySize == 256 \div 8

DomainIterations == 32768

KGKIterations == 1024

KGKSize == 64

AESBlockSize == 16

EEKSize == SaltSize + AESBlockSize + KGKSize

AES256EncryptedMasterkeyFormat == 1

NoCryptError == "NoCryptError"

\* value of *errCode / *errMsg as long as the callee did not store anything
Unset == "unset"

NO_PADDING == "NO_PADDING"

PKCS_PADDING == "PKCS_PADDING"

Sha256 == 4

Sha384 == 5

\* digest length of the hash: derivedKey() without argument returns it whole
HashSize(h) == IF h = Sha384 THEN 48 ELSE 32

(***************************************************************************)
(* Bounds of the model                                                     *)
(***************************************************************************)
\* number of master passwords the caller may use
NumPasswords == 2

\* number of different outputs the random device may give for one call
NumSeeds == 2

\* length of the longest payload
MaxPayloadLen == 20

\* number of master-password changes in the vault scenario
MaxChanges == 2

(***************************************************************************)
(* Byte helpers                                                            *)
(***************************************************************************)
RECURSIVE BitXor(_, _)
BitXor(a, b) ==
  IF a = 0 THEN b
  ELSE IF b = 0 THEN a
  ELSE ((a + b) % 2) + 2 * BitXor(a \div 2, b \div 2)

\* exclusive or of two half bytes, tabulated
NibbleXor == [a \in 0..15 |-> [b \in 0..15 |-> BitXor(a, b)]]

\* exclusive or of two bytes
Xor(a, b) == NibbleXor[a % 16][b % 16] + 16 * NibbleXor[a \div 16][b \div 16]

\* a byte array given by its bytes, as a sequence
Bytes(f) == f \o <<>>

\* QByteArray(ptr, n) / mid(pos, n): n bytes starting after the first pos bytes
Mid(s, pos, n) == SubSeq(s, pos + 1, pos + n)

\* QByteArray::remove(0, n)
Remove(s, n) == SubSeq(s, n + 1, Len(s))

(***************************************************************************)
(* Random device: one call of randomBytes(size) gives one of NumSeeds      *)
(* byte strings; which one is the caller's nondeterministic choice.        *)
(***************************************************************************)
Seeds == 1..NumSeeds

randomBytes(size, seed) == Bytes([i \in 1..size |-> (seed * 37 + i * 11) % 256])

(***************************************************************************)
(* PBKDF2: deterministic in (password, salt, iterations, hash)             *)
(***************************************************************************)
RECURSIVE Digest(_, _, _)
Digest(s, lo, hi) ==
  IF lo > hi THEN 1
  ELSE IF lo = hi THEN ((s[lo] + 1) * (((lo * lo) % 97) + 1)) % 65521
  ELSE LET m == (lo + hi) \div 2
       IN  (Digest(s, lo, m) * 3 + Digest(s, m + 1, hi) + 7) % 65521

PBKDF2(password, salt, iterations, hash, dkLen) ==
  LET a0 == (iterations + 131 * hash) % 65521
      a1 == Digest(password, 1, Len(password))
      a2 == Digest(salt, 1, Len(salt))
      a  == (a0 + 31 * a1 + 17 * a2 + Len(password) + 5 * Len(salt)) % 65521
  IN  Bytes([i \in 1..dkLen |-> ((a % 251) * i + (a \div 251) + i * i) % 256])

makeKeyFromPassword(masterPassword, salt) ==
  PBKDF2(masterPassword, salt, KGKIterations, Sha256, AESKeySize)

\* returns the pair (key, IV)
makeKeyAndIVFromPassword(masterPassword, salt) ==
  LET hash == PBKDF2(masterPassword, salt, DomainIterations, Sha384, HashSize(Sha384))
  IN  [key |-> Mid(hash, 0, AESKeySize), IV |-> Mid(hash, AESKeySize, AESBlockSize)]

(***************************************************************************)
(* AES-256 block transform: a keyed bijection on 16-byte blocks            *)
(***************************************************************************)
Rot(i) == (i % AESBlockSize) + 1

RotInv(j) == ((j + AESBlockSize - 2) % AESBlockSize) + 1

AESEncryptBlock(key, B) ==
  Bytes([i \in 1..AESBlockSize |->
           (B[Rot(i)] + key[i] + 3 * key[i + AESBlockSize] + i) % 256])

AESDecryptBlock(key, C) ==
  Bytes([j \in 1..AESBlockSize |->
           LET i == RotInv(j)
           IN  (C[i] + 1280 - key[i] - 3 * key[i + AESBlockSize] - i) % 256])

XorBlock(A, B) == Bytes([i \in 1..AESBlockSize |-> Xor(A[i], B[i])])

\* CBC over the first n whole blocks of s; prev is the chaining block
RECURSIVE CBCEncrypt(_, _, _, _, _)
CBCEncrypt(key, prev, s, b, n) ==
  IF b > n THEN <<>>
  ELSE LET c == AESEncryptBlock(key, XorBlock(Mid(s, (b - 1) * AESBlockSize, AESBlockSize), prev))
       IN  c \o CBCEncrypt(key, c, s, b + 1, n)

RECURSIVE CBCDecrypt(_, _, _, _, _)
CBCDecrypt(key, prev, s, b, n) ==
  IF b > n THEN <<>>
  ELSE LET c == Mid(s, (b - 1) * AESBlockSize, AESBlockSize)
       IN  XorBlock(AESDecryptBlock(key, c), prev) \o CBCDecrypt(key, c, s, b + 1, n)

\* PKCS #7 padding of the StreamTransformationFilter
PKCSPad(s) ==
  LET pad == AESBlockSize - (Len(s) % AESBlockSize)
  IN  s \o [i \in 1..pad |-> pad]

PKCSValid(s) ==
  /\ Len(s) >= AESBlockSize
  /\ LET pad == s[Len(s)]
     IN  /\ pad >= 1
         /\ pad <= AESBlockSize
         /\ \A i \in (Len(s) - pad + 1)..Len(s) : s[i] = pad

PKCSUnpad(s) == SubSeq(s, 1, Len(s) - s[Len(s)])

(***************************************************************************)
(* Crypter::encrypt / Crypter::decrypt.  The filter throws when the input  *)
(* does not fit the padding scheme; nothing in crypter.cpp catches it.     *)
(***************************************************************************)
InvalidDataFormat == "CryptoPP::InvalidDataFormat"

InvalidCiphertext == "CryptoPP::InvalidCiphertext"

encrypt(key, IV, baPlain, padding) ==
  LET iv == Mid(IV, 0, AESBlockSize)
  IN  IF padding = NO_PADDING
      THEN IF Len(baPlain) % AESBlockSize # 0
           THEN [thrown |-> InvalidDataFormat, out |-> <<>>]
           ELSE [thrown |-> "", out |-> CBCEncrypt(key, iv, baPlain, 1, Len(baPlain) \div AESBlockSize)]
      ELSE LET p == PKCSPad(baPlain)
           IN  [thrown |-> "", out |-> CBCEncrypt(key, iv, p, 1, Len(p) \div AESBlockSize)]

decrypt(key, IV, baCipher, padding) ==
  LET iv == Mid(IV, 0, AESBlockSize)
  IN  IF padding = NO_PADDING
      THEN IF Len(baCipher) % AESBlockSize # 0
           THEN [thrown |-> InvalidDataFormat, out |-> <<>>]
           ELSE [thrown |-> "", out |-> CBCDecrypt(key, iv, baCipher, 1, Len(baCipher) \div AESBlockSize)]
      ELSE IF Len(baCipher) = 0 \/ Len(baCipher) % AESBlockSize # 0
           THEN [thrown |-> InvalidCiphertext, out |-> <<>>]
           ELSE LET p == CBCDecrypt(key, iv, baCipher, 1, Len(baCipher) \div AESBlockSize)
                IN  IF PKCSValid(p)
                    THEN [thrown |-> "", out |-> PKCSUnpad(p)]
                    ELSE [thrown |-> InvalidCiphertext, out |-> <<>>]

(***************************************************************************)
(* qCompress / qUncompress: a 4-byte big-endian length, then the stream    *)
(* (two magic bytes, run-length pairs, a two-byte checksum).  qUncompress  *)
(* answers corrupt input with a warning and an empty QByteArray.           *)
(***************************************************************************)
BE32(n) == <<(n \div 16777216) % 256, (n \div 65536) % 256, (n \div 256) % 256, n % 256>>

RECURSIVE RunLen(_, _, _)
RunLen(s, i, n) ==
  IF i + n <= Len(s) /\ s[i + n] = s[i] /\ n < 255 THEN RunLen(s, i, n + 1) ELSE n

RECURSIVE RLE(_, _)
RLE(s, i) ==
  IF i > Len(s) THEN <<>>
  ELSE LET r == RunLen(s, i, 1) IN <<r, s[i]>> \o RLE(s, i + r)

RECURSIVE RLEDecode(_, _)
RLEDecode(s, i) ==
  IF i > Len(s) THEN <<>>
  ELSE [k \in 1..s[i] |-> s[i + 1]] \o RLEDecode(s, i + 2)

RECURSIVE ByteSum(_, _)
ByteSum(s, i) == IF i > Len(s) THEN 0 ELSE (s[i] * i + ByteSum(s, i + 1)) % 65521

Checksum(s) == <<(ByteSum(s, 1) \div 256) % 256, (ByteSum(s, 1) + 1) % 256>>

ZMagic == <<120, 218>>

qCompress(data) ==
  IF Len(data) = 0 THEN <<0, 0, 0, 0>>
  ELSE BE32(Len(data)) \o ZMagic \o RLE(data, 1) \o Checksum(data)

qUncompress(data) ==
  IF Len(data) <= 4 THEN <<>>
  ELSE LET z    == Remove(data, 4)
           body == SubSeq(z, 3, Len(z) - 2)
       IN  IF /\ Len(z) >= 4
              /\ SubSeq(z, 1, 2) = ZMagic
              /\ Len(body) % 2 = 0
              /\ \A k \in 1..(Len(body) \div 2) : body[2 * k - 1] >= 1
              /\ SubSeq(z, Len(z) - 1, Len(z)) = Checksum(RLEDecode(body, 1))
           THEN RLEDecode(body, 1)
           ELSE <<>>

(***************************************************************************)
(* Q_ASSERT_X: qFatal() in a debug build, nothing in a release build       *)
(* (QT_NO_DEBUG).                                                          *)
(***************************************************************************)
AssertFails(debug, cond) == debug /\ ~cond

Returned == "returned"

QFatal == "qFatal"

Thrown == "thrown"

(***************************************************************************)
(* Crypter::encode.  The result records how the call ended, what the       *)
(* caller got, what *errCode and *errMsg hold afterwards, the library      *)
(* operations performed, and the intermediate blocks.                      *)
(***************************************************************************)
\* variant: the store at function entry is missing
ErrCodeNotStored(errCodePtr) == Unset

\* *errCode after the store at function entry
ErrCodeAtEntry(errCodePtr) == IF errCodePtr THEN NoCryptError ELSE Unset

\* variant: the KGK is wrapped in a form that depends on the fresh salt
InnerBlockRekeyed(salt2, IV2, KGK) ==
  salt2 \o IV2 \o [i \in 1..Len(KGK) |-> (KGK[i] + salt2[1]) % 256]

\* KGK2: salt2, IV2 and the KGK appended in this order
InnerBlock(salt2, IV2, KGK) == salt2 \o IV2 \o KGK

\* variant: the format flag is not written
EnvelopeNoFlag(salt, EEK, baCipher) == salt \o EEK \o baCipher

\* the returned block: format flag, salt, EEK, encrypted data
Envelope(salt, EEK, baCipher) ==
  <<AES256EncryptedMasterkeyFormat>> \o salt \o EEK \o baCipher

EncBase ==
  [outcome |-> Returned, thrown |-> "", result |-> <<>>, errCode |-> Unset,
   errMsg |-> Unset, ops |-> <<>>, salt2 |-> <<>>, IV2 |-> <<>>,
   KGK2 |-> <<>>, EEK |-> <<>>, plain |-> <<>>]

encode(debug, key, IV, salt, KGK, data, compress, errCodePtr, seedSalt, seedIV) ==
  IF AssertFails(debug, Len(KGK) = KGKSize)
  THEN [EncBase EXCEPT !.outcome = QFatal]
  ELSE
  LET ec    == ErrCodeAtEntry(errCodePtr)
      salt2 == randomBytes(SaltSize, seedSalt)
      IV2   == randomBytes(AESBlockSize, seedIV)
      KGK2  == InnerBlock(salt2, IV2, KGK)
      r1    == [EncBase EXCEPT !.errCode = ec, !.salt2 = salt2, !.IV2 = IV2,
                               !.KGK2 = KGK2,
                               !.ops = <<"randomBytes", "randomBytes">>]
  IN
  IF AssertFails(debug, Len(KGK2) = EEKSize)
  THEN [r1 EXCEPT !.outcome = QFatal]
  ELSE
  LET e1 == encrypt(key, IV, KGK2, NO_PADDING)
      r2 == [r1 EXCEPT !.ops = Append(r1.ops, "encrypt"), !.EEK = e1.out]
  IN
  IF e1.thrown # ""
  THEN [r2 EXCEPT !.outcome = Thrown, !.thrown = e1.thrown]
  ELSE IF AssertFails(debug, Len(e1.out) = EEKSize)
  THEN [r2 EXCEPT !.outcome = QFatal]
  ELSE
  LET blobKey == makeKeyFromPassword(KGK, salt2)
      r3      == [r2 EXCEPT !.ops = Append(r2.ops, "makeKeyFromPassword")]
  IN
  IF AssertFails(debug, Len(blobKey) = AESKeySize)
  THEN [r3 EXCEPT !.outcome = QFatal]
  ELSE
  LET baPlain == IF compress THEN qCompress(data) ELSE data
      e2      == encrypt(blobKey, IV2, baPlain, PKCS_PADDING)
      r4      == [r3 EXCEPT !.ops = Append(r3.ops, "encrypt"), !.plain = baPlain]
  IN
  IF e2.thrown # ""
  THEN [r4 EXCEPT !.outcome = Thrown, !.thrown = e2.thrown]
  ELSE [r4 EXCEPT !.result = Envelope(salt, e1.out, e2.out)]

(***************************************************************************)
(* Crypter::decode.  KGKin is what the caller's KGK buffer holds before    *)
(* the call; field KGK is what it holds afterwards.                        *)
(***************************************************************************)
\* variant: the KGK is read before salt2 and IV2 are removed
SplitInnerBlockNoRemove(baKGK) ==
  [salt2 |-> Mid(baKGK, 0, SaltSize), IV2 |-> Mid(baKGK, SaltSize, AESBlockSize),
   KGK |-> Mid(baKGK, 0, KGKSize)]

\* the three parts of the decrypted EEK
SplitInnerBlock(baKGK) ==
  LET b1 == Remove(baKGK, SaltSize)
      b2 == Remove(b1, AESBlockSize)
  IN  [salt2 |-> Mid(baKGK, 0, SaltSize), IV2 |-> Mid(b1, 0, AESBlockSize),
       KGK |-> Mid(b2, 0, KGKSize)]

\* variant: the decrypted data is returned as it is
UncompressedNever(uncompress, plain) == plain

\* the value decode returns for the decrypted data
Uncompressed(uncompress, plain) == IF uncompress THEN qUncompress(plain) ELSE plain

DecBase(KGKin) ==
  [outcome |-> Returned, thrown |-> "", result |-> <<>>, errCode |-> Unset,
   errMsg |-> Unset, ops |-> <<>>, KGK |-> KGKin, KGKwritten |-> FALSE,
   EEK |-> <<>>, baKGK |-> <<>>]

decode(debug, masterPassword, baCipher0, uncompress, KGKin, errCodePtr) ==
  LET ec == ErrCodeAtEntry(errCodePtr)
      r0 == [DecBase(KGKin) EXCEPT !.errCode = ec]
      formatFlag == baCipher0[1]
  IN
  IF AssertFails(debug, formatFlag = AES256EncryptedMasterkeyFormat)
  THEN [r0 EXCEPT !.outcome = QFatal]
  ELSE
  LET c1   == Remove(baCipher0, 1)
      salt == Mid(c1, 0, SaltSize)
      c2   == Remove(c1, SaltSize)
      EEK  == Mid(c2, 0, EEKSize)
      c3   == Remove(c2, EEKSize)
      r1   == [r0 EXCEPT !.EEK = EEK]
  IN
  IF AssertFails(debug, Len(EEK) = EEKSize)
  THEN [r1 EXCEPT !.outcome = QFatal]
  ELSE
  LET kiv == makeKeyAndIVFromPassword(masterPassword, salt)
      d1  == decrypt(kiv.key, kiv.IV, EEK, NO_PADDING)
      r2  == [r1 EXCEPT !.ops = <<"makeKeyAndIVFromPassword", "decrypt">>,
                        !.baKGK = d1.out]
  IN
  IF d1.thrown # ""
  THEN [r2 EXCEPT !.outcome = Thrown, !.thrown = d1.thrown]
  ELSE IF AssertFails(debug, Len(d1.out) = EEKSize)
  THEN [r2 EXCEPT !.outcome = QFatal]
  ELSE
  LET parts   == SplitInnerBlock(d1.out)
      salt2   == parts.salt2
      IV2     == parts.IV2
      KGK     == parts.KGK
      blobKey == makeKeyFromPassword(KGK, salt2)
      d2      == decrypt(blobKey, IV2, c3, PKCS_PADDING)
      r3      == [r2 EXCEPT !.KGK = KGK, !.KGKwritten = TRUE,
                            !.ops = r2.ops \o <<"makeKeyFromPassword", "decrypt">>]
  IN
  IF d2.thrown # ""
  THEN [r3 EXCEPT !.outcome = Thrown, !.thrown = d2.thrown]
  ELSE [r3 EXCEPT !.result = Uncompressed(uncompress, d2.out)]

(***************************************************************************)
(* Inputs the callers may pass                                             *)
(***************************************************************************)
Password(p) == Bytes([i \in 1..(3 + p) |-> 96 + ((p * 7 + i * 5) % 26)])

Passwords == {Password(p) : p \in 1..NumPasswords}

Salt(n) == Bytes([i \in 1..n |-> (i * 5 + 1) % 256])

KGKOf(c, n) == Bytes([i \in 1..n |-> IF c = 1 THEN 1 ELSE (i * 3 + c) % 256])

Payload(n) == Bytes([i \in 1..n |-> 104 + (((i - 1) \div 3) % 2)])

PayloadLens == {0, 2, AESBlockSize, MaxPayloadLen}

\* arguments of one encode call: the caller derives key and IV from the
\* master password and the outer salt; ivExtra bytes are appended to the IV
EncodeArgs(M, saltLen, ivExtra, KGK, data, compress, errCodePtr) ==
  LET kiv == makeKeyAndIVFromPassword(M, Salt(saltLen))
  IN  [masterPassword |-> M, key |-> kiv.key,
       IV |-> kiv.IV \o [i \in 1..ivExtra |-> 0],
       salt |-> Salt(saltLen), KGK |-> KGK, data |-> data,
       compress |-> compress, errCodePtr |-> errCodePtr]

ValidArgs ==
  {EncodeArgs(M, SaltSize, 0, KGKOf(c, KGKSize), Payload(n), z, e) :
     M \in Passwords, c \in 1..2, n \in PayloadLens, z \in BOOLEAN, e \in BOOLEAN}

\* calls that break one of the fixed lengths
BadLengthArgs ==
  UNION {{EncodeArgs(M, SaltSize - 1, 0, KGKOf(1, KGKSize), Payload(n), z, e),
          EncodeArgs(M, SaltSize, 1, KGKOf(1, KGKSize), Payload(n), z, e),
          EncodeArgs(M, SaltSize, 0, KGKOf(1, KGKSize - 1), Payload(n), z, e),
          EncodeArgs(M, SaltSize, 0, KGKOf(1, KGKSize + AESBlockSize), Payload(n), z, e)} :
     M \in Passwords, n \in PayloadLens, z \in BOOLEAN, e \in BOOLEAN}

\* the calls of the two-encode scenario: a caller that passes errCode
TwiceArgs == {a \in ValidArgs : a.errCodePtr}

\* the vault of the password-change scenario: one KGK, one non-empty payload
VaultArgs ==
  {EncodeArgs(M, SaltSize, 0, KGKOf(2, KGKSize), Payload(MaxPayloadLen), z, TRUE) :
     M \in Passwords, z \in BOOLEAN}

WellFormed(a) ==
  /\ Len(a.KGK) = KGKSize
  /\ Len(a.salt) = SaltSize
  /\ Len(a.IV) = AESBlockSize

(***************************************************************************)
(* State: one encode call followed by one decode call of its envelope      *)
(***************************************************************************)
VARIABLES pc, debugBuild, args, enc, din, dec, enc2, dec2, vault

vars == <<pc, debugBuild, args, enc, din, dec, enc2, dec2, vault>>

None == [outcome |-> "none"]

Init ==
  /\ pc = "start"
  /\ debugBuild \in BOOLEAN
  /\ args \in ValidArgs \cup BadLengthArgs
  /\ enc = None
  /\ din = None
  /\ dec = None
  /\ enc2 = None
  /\ dec2 = None
  /\ vault = None

Encode ==
  /\ pc = "start"
  /\ \E seedSalt \in Seeds, seedIV \in Seeds :
       enc' = encode(debugBuild, args.key, args.IV, args.salt, args.KGK,
                     args.data, args.compress, args.errCodePtr, seedSalt, seedIV)
  /\ pc' = "encoded"
  /\ UNCHANGED <<debugBuild, args, din, dec, enc2, dec2, vault>>

\* the stored envelope with its first byte replaced by f
WithFormat(envelope, f) == [envelope EXCEPT ![1] = f]

Decode ==
  /\ pc = "encoded"
  /\ enc.outcome = Returned
  /\ \E M \in Passwords, uncompress \in BOOLEAN,
        f \in {AES256EncryptedMasterkeyFormat, AES256EncryptedMasterkeyFormat + 1} :
       /\ din' = [masterPassword |-> M, baCipher |-> WithFormat(enc.result, f),
                  uncompress |-> uncompress, errCodePtr |-> args.errCodePtr]
       /\ dec' = decode(debugBuild, M, WithFormat(enc.result, f), uncompress,
                        <<>>, args.errCodePtr)
  /\ pc' = "decoded"
  /\ UNCHANGED <<debugBuild, args, enc, enc2, dec2, vault>>

Next == Encode \/ Decode

Spec == Init /\ [][Next]_vars

(***************************************************************************)
(* Two encode calls with the same arguments, then both envelopes decoded   *)
(* with the master password.                                               *)
(***************************************************************************)
InitTwice ==
  /\ pc = "twice"
  /\ debugBuild \in BOOLEAN
  /\ args \in TwiceArgs
  /\ enc = None
  /\ din = None
  /\ dec = None
  /\ enc2 = None
  /\ dec2 = None
  /\ vault = None

EncodeFirst ==
  /\ pc = "twice"
  /\ \E seedSalt \in Seeds, seedIV \in Seeds :
       enc' = encode(debugBuild, args.key, args.IV, args.salt, args.KGK,
                     args.data, args.compress, args.errCodePtr, seedSalt, seedIV)
  /\ pc' = "first"
  /\ UNCHANGED <<debugBuild, args, din, dec, enc2, dec2, vault>>

EncodeSecond ==
  /\ pc = "first"
  /\ \E seedSalt \in Seeds, seedIV \in Seeds :
       enc2' = encode(debugBuild, args.key, args.IV, args.salt, args.KGK,
                      args.data, args.compress, args.errCodePtr, seedSalt, seedIV)
  /\ pc' = "second"
  /\ UNCHANGED <<debugBuild, args, enc, din, dec, dec2, vault>>

DecodeBoth ==
  /\ pc = "second"
  /\ enc.outcome = Returned
  /\ enc2.outcome = Returned
  /\ dec' = decode(debugBuild, args.masterPassword, enc.result, args.compress,
                   <<>>, args.errCodePtr)
  /\ dec2' = decode(debugBuild, args.masterPassword, enc2.result, args.compress,
                    <<>>, args.errCodePtr)
  /\ pc' = "both"
  /\ UNCHANGED <<debugBuild, args, enc, enc2, din, vault>>

NextTwice == EncodeFirst \/ EncodeSecond \/ DecodeBoth

SpecTwice == InitTwice /\ [][NextTwice]_vars

(***************************************************************************)
(* A vault whose master password is changed: the caller decodes the stored *)
(* envelope with the current password and encodes what it got under the    *)
(* key and IV derived from the new password and the stored salt.           *)
(***************************************************************************)
InitVault ==
  /\ pc = "new"
  /\ debugBuild \in BOOLEAN
  /\ args \in VaultArgs
  /\ enc = None
  /\ din = None
  /\ dec = None
  /\ enc2 = None
  /\ dec2 = None
  /\ vault = None

CreateVault ==
  /\ pc = "new"
  /\ \E seedSalt \in Seeds, seedIV \in Seeds :
       \E e \in {encode(debugBuild, args.key, args.IV, args.salt, args.KGK,
                        args.data, args.compress, args.errCodePtr, seedSalt, seedIV)} :
         /\ e.outcome = Returned
         /\ vault' = [masterPassword |-> args.masterPassword, envelope |-> e.result,
                      changes |-> 0, KGK |-> args.KGK, payload |-> args.data]
  /\ pc' = "vault"
  /\ UNCHANGED <<debugBuild, args, enc, din, dec, enc2, dec2>>

ChangePassword ==
  /\ pc = "vault"
  /\ vault.changes < MaxChanges
  /\ \E M2 \in Passwords, seedSalt \in Seeds, seedIV \in Seeds :
       \E d \in {decode(debugBuild, vault.masterPassword, vault.envelope,
                        args.compress, vault.KGK, args.errCodePtr)} :
         /\ d.outcome = Returned
         /\ \E kiv \in {makeKeyAndIVFromPassword(M2, args.salt)} :
              \E e \in {encode(debugBuild, kiv.key, kiv.IV, args.salt, d.KGK,
                               d.result, args.compress, args.errCodePtr,
                               seedSalt, seedIV)} :
                /\ e.outcome = Returned
                /\ vault' = [masterPassword |-> M2, envelope |-> e.result,
                             changes |-> vault.changes + 1, KGK |-> d.KGK,
                             payload |-> d.result]
  /\ UNCHANGED <<pc, debugBuild, args, enc, din, dec, enc2, dec2>>

NextVault == CreateVault \/ ChangePassword

SpecVault == InitVault /\ [][NextVault]_vars

(***************************************************************************)
(* Properties                                                              *)
(***************************************************************************)
IntegrityError == "IntegrityError"

\* what reaches the caller of a call that ended: the error code of a call
\* that returned, the exception of a call that threw, qFatal otherwise
ReportedError(r) ==
  IF r.outcome = Returned THEN r.errCode
  ELSE IF r.outcome = Thrown THEN r.thrown
  ELSE QFatal

CiphertextLength(n) == AESBlockSize * ((n \div AESBlockSize) + 1)

SamePassword == din.masterPassword = args.masterPassword

Untampered == din.baCipher = enc.result

\* C1: decoding an envelope with the password whose derived key and IV
\* encoded it, and with uncompress = compress, returns the payload and the
\* KGK given to encode, whatever salt2 and IV2 were drawn.
C1_RoundTrip ==
  (pc = "decoded" /\ WellFormed(args) /\ SamePassword /\ Untampered
     /\ din.uncompress = args.compress)
  => (dec.outcome = Returned /\ dec.result = args.data /\ dec.KGK = args.KGK)

C1_Witness ==
  /\ pc = "decoded" /\ WellFormed(args) /\ SamePassword /\ Untampered
  /\ args.compress /\ din.uncompress
  /\ Len(args.data) = MaxPayloadLen
  /\ enc.plain # args.data
  /\ dec.result = args.data
  /\ dec.KGK = args.KGK

\* C2: decoding a valid envelope with another master password than the one
\* that encoded it does not succeed and reports IntegrityError to the caller.
C2_WrongPasswordIntegrityError ==
  (pc = "decoded" /\ WellFormed(args) /\ Untampered /\ ~SamePassword
     /\ din.errCodePtr)
  => (dec.outcome # Returned /\ ReportedError(dec) = IntegrityError)

\* C3: an envelope whose first byte is not the format flag makes decode fail
\* at once: no key derivation, no decryption, no write to the KGK output.
C3_FormatRejected ==
  (pc = "decoded" /\ din.baCipher[1] # AES256EncryptedMasterkeyFormat)
  => (dec.outcome # Returned /\ dec.ops = <<>> /\ ~dec.KGKwritten)

\* C4 as stated: two encode calls with the same arguments always give two
\* different envelopes.
C4_AlwaysDifferent ==
  pc \in {"second", "both"} => enc.result # enc2.result

\* C4, amended: two encode calls with the same arguments give different
\* envelopes (different EEK) whenever the random source gave the two calls
\* different (salt2, IV2), and decoding either envelope with the master
\* password recovers the KGK given to encode.
C4_DifferentWhenDrawsDiffer ==
  /\ (pc \in {"second", "both"} /\ <<enc.salt2, enc.IV2>> # <<enc2.salt2, enc2.IV2>>)
       => (enc.result # enc2.result /\ enc.EEK # enc2.EEK)
  /\ pc = "both"
       => /\ dec.outcome = Returned
          /\ dec2.outcome = Returned
          /\ dec.KGK = args.KGK
          /\ dec2.KGK = args.KGK

C4_Witness ==
  /\ pc = "both"
  /\ enc.salt2 # enc2.salt2
  /\ enc.IV2 = enc2.IV2
  /\ enc.result # enc2.result
  /\ dec.KGK = dec2.KGK
  /\ dec.KGK = args.KGK

C6_ContractViolation ==
  (pc \in {"encoded", "decoded"} /\ ~WellFormed(args))
  => (enc.outcome = QFatal /\ enc.ops = <<>> /\ enc.result = <<>>)

\* C7: decode with uncompress = true of an envelope whose decrypted payload
\* is not a compressed stream does not return a payload as a success.
C7_DecompressionFailure ==
  (pc = "decoded" /\ WellFormed(args) /\ SamePassword /\ Untampered
     /\ ~args.compress /\ din.uncompress)
  => dec.outcome # Returned

\* C8: when decode fails, the caller's KGK buffer has not been written.
C8_NoKGKOnFailure ==
  (pc = "decoded" /\ dec.outcome # Returned)
  => (~dec.KGKwritten /\ dec.KGK = <<>>)

\* C9: after any number of master-password changes (decode with the old
\* password, encode under the new one with the same salt, KGK and payload)
\* decoding the stored envelope with the current password returns the
\* original payload and the KGK given to the first encode.
C9_VaultPreserved ==
  pc = "vault" =>
    \E d \in {decode(debugBuild, vault.masterPassword, vault.envelope,
                     args.compress, <<>>, args.errCodePtr)} :
      /\ d.outcome = Returned
      /\ d.result = args.data
      /\ d.KGK = args.KGK
      /\ vault.KGK = args.KGK
      /\ vault.payload = args.data

C9_Witness ==
  /\ pc = "vault"
  /\ vault.changes >= 2
  /\ vault.masterPassword # args.masterPassword
  /\ Len(args.data) > 0
  /\ decode(debugBuild, vault.masterPassword, vault.envelope, args.compress,
            <<>>, args.errCodePtr).KGK = args.KGK

=============================================================================
